---- MODULE Spec2Model ----
(***************************************************************************)
(* Audio-to-transcript pipeline of app/services:                           *)
(*   EnhancedTranscriptionService  (enhanced_transcription_service.py)     *)
(*   SpeakerDiarizationService     (speaker_diarization_service.py)        *)
(*   DeepgramTranscriptionService  (deepgram_transcription_service.py)     *)
(*   DeepgramAsyncConnection       (deepgram_streaming_async.py)           *)
(*   TranscriptionConfig           (config/transcription_config.py)        *)
(*                                                                         *)
(* Strings built with f"{session_id}_{speaker}" are modelled as sequences  *)
(* of tokens joined by "_": the session "a_agent" is <<"a", "agent">> and  *)
(* its technician channel key is <<"a", "agent", "technician">>.           *)
(* Timestamps are milliseconds, durations are exact rationals kept as      *)
(* (samples, rate) pairs, None timestamps are -1.                          *)
(***************************************************************************)
EXTENDS Integers, Sequences, FiniteSets, TLC

VARIABLES
    config,                 \* the TranscriptionConfig object the service holds
    transcription_config,   \* the module global _transcription_config: its values, and
                            \* whether it is the object the service holds
    audio_buffers,          \* EnhancedTranscriptionService.audio_buffers
    streaming_connections,  \* EnhancedTranscriptionService.streaming_connections
    released,               \* the connection objects that the last initialize_session or
                            \* end_session took out of streaming_connections or
                            \* left unregistered with its thread alive
    vad_state,              \* SpeakerDiarizationService.vad_state
    speaker_profiles,       \* SpeakerDiarizationService.speaker_profiles
    calls,                  \* process_audio_stream calls suspended in the backend call
    requests,               \* number of requests the transcription backends received
    emitted,                \* results handed to _process_with_agents, in hand-off order
    clock,                  \* per channel key: number of chunks submitted so far
    last                    \* what the operation that completed last handed to its caller

vars == <<config, transcription_config, audio_buffers, streaming_connections, released, vad_state,
          speaker_profiles, calls, requests, emitted, clock, last>>

----------------------------------------------------------------------------
(* Bounds of the model *)

\* chunks submitted over all channels, in the specification of the whole service
MaxChunks == 1

\* chunks submitted over all channels, in the specification of the buffered pipeline
MaxUtteranceChunks == 3

\* chunks submitted in the runs that explore the quality gate and the backends
MaxBackendChunks == 2

\* chunks given to send_audio in the runs of one streaming connection
MaxStreamChunks == 2

\* seconds that pass in the runs of one streaming connection
MaxSeconds == 6

\* chunks submitted over all channels, in the runs that follow total_duration
MaxDurationChunks == 3

\* chunks submitted over the channels of two sessions
MaxChannelChunks == 3

(* Inputs *)

Sessions == {<<"a">>}

\* two sessions at a time, the id of one starting with the id of the other
TwoSessions == {<<"a">>, <<"a", "agent">>}

Speakers == {"technician", "agent"}

TechnicianIds == {"tech1"}

ChunkBytes == {16000, 96000}

\* lengths of the frames a websocket delivers: 20 ms of 8 kHz PCM, 10 ms of
\* 16 kHz PCM, and binary messages that end in the middle of a sample
FrameBytes == {320, 321, 641}

\* a channel fed 1.0 s of speech and then 0.6 s of silence in chunks of 20 ms,
\* each with the timestamp of its end
ScenarioB == [step_ms |-> 20, speech_ms |-> 1000, silence_ms |-> 600]

\* rms and peak amplitude of the samples of one chunk: near-silence and speech
ChunkLevels == {[rms |-> 20, peak |-> 60], [rms |-> 2000, peak |-> 6000]}

\* the levels around the thresholds of the quality gate: silence, a click in
\* silence, flat audio between the two minimums, audio with peaks between the
\* two half minimums, speech
GateLevels ==
    ChunkLevels \cup {[rms |-> 20, peak |-> 6000], [rms |-> 100, peak |-> 200],
                     [rms |-> 40, peak |-> 6000]}

\* the sample_rate parameter left at its default None
NoRate == 0

\* the values callers pass as sample_rate (twilio_audio_service passes 8000 for
\* the technician and 16000 for the agent), or nothing
SampleRates == {NoRate, 8000, 16000}

\* callers take the timestamp from the wall clock, relative to the start of the
\* channel's stream; one chunk every 500 ms
ChunkIntervalMs == 500

(* Program constants *)

sample_width == 2

min_rms_8k == 50

min_rms_16k == 150

max_amplitude_silence == 300

min_bytes_8k == 48000

min_bytes_16k == 96000

max_buffer_duration == 10

bypass_min_duration == FALSE

\* min_speech_duration = 0.8 s, as tenths of a second
min_speech_duration_tenths == 8

\* silence_duration_to_segment = 0.5 s
silence_duration_to_segment_ms == 500

min_segment_rms_agent == 200

min_segment_rms_technician == 2

\* vad_threshold = 0.03 of full scale 32768, in hundredths
vad_threshold_pct == 3

\* "will skip first 0.5s unconditionally", counted from initial_skip_start
initial_skip_ms == 500

NoTime == -1

----------------------------------------------------------------------------
(* Keys *)

buffer_key(session_id, speaker) == session_id \o <<speaker>>

AllKeys == {buffer_key(s, sp) : s \in Sessions, sp \in Speakers}

RECURSIVE SeqOf(_)
SeqOf(set) ==
    IF set = {} THEN <<>>
    ELSE LET x == CHOOSE y \in set : TRUE IN <<x>> \o SeqOf(set \ {x})

KeySeq == SeqOf(AllKeys)

\* key.startswith(f"{session_id}_")
StartsWith(key, session_id) ==
    /\ Len(key) > Len(session_id)
    /\ SubSeq(key, 1, Len(session_id)) = session_id

\* '_agent' in session_id  /  '_technician' in session_id
ContainsToken(key, tok) == \E i \in 2..Len(key) : key[i] = tok

Remove(f, ks) == [k \in DOMAIN f \ ks |-> f[k]]

Put(f, k, v) == (k :> v) @@ f

\* the sum of a sequence of numbers, by halves
RECURSIVE Sum(_)
Sum(seq) ==
    IF Len(seq) = 0 THEN 0
    ELSE IF Len(seq) = 1 THEN seq[1]
    ELSE LET h == Len(seq) \div 2
         IN  Sum(SubSeq(seq, 1, h)) + Sum(SubSeq(seq, h + 1, Len(seq)))

----------------------------------------------------------------------------
(* Audio buffer *)

default_sample_rate(speaker) == IF speaker = "technician" THEN 8000 ELSE 16000

\* effective_sample_rate = sample_rate if sample_rate else (8000 if ... else 16000)
effective_sample_rate(sample_rate, speaker) ==
    IF sample_rate # NoRate THEN sample_rate ELSE default_sample_rate(speaker)

\* the dict literal of process_audio_stream, with total_duration 0.0
NewBuffer(timestamp, waiting, skip_start, rate) ==
    [chunks |-> <<>>, start_time |-> timestamp, last_chunk_time |-> timestamp,
     total_duration |-> [samples |-> 0, rate |-> 1],
     waiting_for_speech |-> waiting, initial_skip_start |-> skip_start,
     sample_rate |-> rate]

\* sum(len(chunk) // self.sample_width for chunk in buffer['chunks'])
TotalSamples(chunks) == Sum([i \in 1..Len(chunks) |-> chunks[i].bytes \div sample_width])

\* sum(len(chunk) for chunk in buffer['chunks'])
TotalBytes(chunks) == Sum([i \in 1..Len(chunks) |-> chunks[i].bytes])

\* buffer['chunks'].append(...), last_chunk_time, total_duration
AppendChunk(buffer, chunk, timestamp) ==
    LET chunks == Append(buffer.chunks, chunk)
    IN [buffer EXCEPT !.chunks = chunks,
                      !.last_chunk_time = timestamp,
                      !.total_duration = [samples |-> TotalSamples(chunks),
                                          rate |-> buffer.sample_rate]]

\* total_duration >= n/10 seconds
DurationAtLeastTenths(d, n) == d.samples * 10 >= n * d.rate

----------------------------------------------------------------------------
(* SpeakerDiarizationService: voice activity state machine *)

NewVadState ==
    [is_speaking |-> FALSE, silence_start |-> NoTime,
     last_speech_timestamp |-> NoTime, speech_start |-> NoTime,
     rms_samples |-> <<>>]

\* normalized_rms = rms / 32768.0 ; is_speech = normalized_rms > self.vad_threshold
detect_voice_activity(chunk) == chunk.rms * 100 > vad_threshold_pct * 32768

get_min_rms_for_speaker(session_id) ==
    IF ContainsToken(session_id, "agent") THEN min_segment_rms_agent
    ELSE IF ContainsToken(session_id, "technician") THEN min_segment_rms_technician
    ELSE min_segment_rms_technician

\* avg_rms < min_rms_threshold, avg_rms = np.mean(state['rms_samples'])
AvgRmsBelow(rms_samples, threshold) == Sum(rms_samples) < threshold * Len(rms_samples)

\* speech that leaves no RMS sample behind
track_rms_skipped(rms_samples, absolute_rms) == rms_samples

\* state['rms_samples'].append(absolute_rms)
track_rms(rms_samples, absolute_rms) == Append(rms_samples, absolute_rms)

\* check_speech_ended(session_id, audio_data, chunk_duration, current_timestamp):
\* the new VAD state of session_id and the returned (should_segment, reason, pause_duration_ms)
check_speech_ended(states, session_id, chunk, current_timestamp) ==
    LET state == IF session_id \in DOMAIN states THEN states[session_id] ELSE NewVadState
        is_speech == detect_voice_activity(chunk)
        started == IF state.is_speaking THEN state
                   ELSE [state EXCEPT !.speech_start = current_timestamp, !.rms_samples = <<>>]
        silence_start == IF state.silence_start = NoTime THEN current_timestamp
                         ELSE state.silence_start
        silence_duration == current_timestamp - silence_start
        ended == [state EXCEPT !.is_speaking = FALSE, !.silence_start = NoTime]
    IN  IF is_speech
        THEN [state |-> [started EXCEPT !.rms_samples = track_rms(started.rms_samples, chunk.rms),
                                        !.is_speaking = TRUE,
                                        !.last_speech_timestamp = current_timestamp,
                                        !.silence_start = NoTime],
              should_segment |-> FALSE, reason |-> "speech_ongoing", pause |-> 0]
        ELSE IF state.is_speaking
        THEN IF silence_duration >= silence_duration_to_segment_ms
             THEN IF state.rms_samples # <<>>
                  THEN IF AvgRmsBelow(state.rms_samples, get_min_rms_for_speaker(session_id))
                       THEN [state |-> [ended EXCEPT !.rms_samples = <<>>],
                             should_segment |-> TRUE, reason |-> "rms_too_low",
                             pause |-> silence_duration]
                       ELSE [state |-> [ended EXCEPT !.rms_samples = <<>>],
                             should_segment |-> TRUE, reason |-> "silence_threshold_reached",
                             pause |-> silence_duration]
                  ELSE [state |-> ended,
                        should_segment |-> TRUE, reason |-> "no_rms_data", pause |-> 0]
             ELSE [state |-> [state EXCEPT !.silence_start = silence_start],
                   should_segment |-> FALSE, reason |-> "silence_accumulating",
                   pause |-> silence_duration]
        ELSE [state |-> state,
              should_segment |-> FALSE, reason |-> "no_active_speech", pause |-> 0]

\* should_process_segment(session_id, speaker_role, segment_duration)
should_process_segment(speaker_role, segment_duration) ==
    IF speaker_role \in {"technician", "agent"}
    THEN DurationAtLeastTenths(segment_duration, min_speech_duration_tenths)
    ELSE FALSE

----------------------------------------------------------------------------
(* _transcribe_buffer up to the backend call *)

RECURSIVE Gcd(_, _)
Gcd(a, b) == IF b = 0 THEN a ELSE Gcd(b, a % b)

\* the largest number of samples that divides the length of every chunk
RECURSIVE SampleUnit(_)
SampleUnit(chunks) ==
    IF Len(chunks) = 0 THEN 0
    ELSE IF Len(chunks) = 1 THEN chunks[1].bytes \div sample_width
    ELSE LET h == Len(chunks) \div 2
         IN  Gcd(SampleUnit(SubSeq(chunks, 1, h)),
                 SampleUnit(SubSeq(chunks, h + 1, Len(chunks))))

\* weight of a chunk in the mean of squares over the samples of the joined
\* chunks: its samples, counted in units that divide every chunk
Weight(c, unit) == (c.bytes \div sample_width) \div unit

SumSquares(chunks) ==
    LET unit == SampleUnit(chunks)
    IN  Sum([i \in 1..Len(chunks) |-> chunks[i].rms * chunks[i].rms * Weight(chunks[i], unit)])

SumWeights(chunks) ==
    LET unit == SampleUnit(chunks)
    IN  Sum([i \in 1..Len(chunks) |-> Weight(chunks[i], unit)])

MaxPeak(chunks) ==
    LET peaks == {chunks[i].peak : i \in 1..Len(chunks)} \cup {0}
    IN  CHOOSE m \in peaks : \A p \in peaks : m >= p

\* the silence detection without its second test ("Additional check")
TooQuietAndFlat(chunks, audio_sample_rate) ==
    LET min_rms == IF audio_sample_rate = 8000 THEN min_rms_8k ELSE min_rms_16k
    IN  /\ SumSquares(chunks) < min_rms * min_rms * SumWeights(chunks)
        /\ MaxPeak(chunks) < max_amplitude_silence

\* the silence detection of _transcribe_buffer: TRUE when the audio is skipped
TooQuiet(chunks, audio_sample_rate) ==
    LET min_rms == IF audio_sample_rate = 8000 THEN min_rms_8k ELSE min_rms_16k
        n == SumWeights(chunks)
        sq == SumSquares(chunks)
    IN  \/ sq < min_rms * min_rms * n /\ MaxPeak(chunks) < max_amplitude_silence
        \/ 4 * sq < min_rms * min_rms * n

\* TRUE when _transcribe_buffer reaches the call of the backend
ReachesBackend(buffer, speaker, has_speech) ==
    /\ buffer.chunks # <<>>
    /\ ~TooQuiet(buffer.chunks, buffer.sample_rate)
    /\ has_speech
    /\ speaker \in {"technician", "agent"}
    /\ (bypass_min_duration \/ should_process_segment(speaker, buffer.total_duration))

----------------------------------------------------------------------------
(* DeepgramAsyncConnection *)

\* the None that close() puts on the audio queue
PoisonPill == 0

\* no result has been handed to the callback
NoMessage == [is_final |-> FALSE, text |-> ""]

\* the object transcribe_streaming returns after connect() succeeded: the state
\* of _run_connection when it has set is_connected and reaches asyncio.gather.
\*   audio_queue: everything put on the queue so far, in order; taken: how many
\*   of these the sender has got; forwarded: what send_media was given;
\*   receiver, keepalive, sender: where each coroutine of the gather stands;
\*   result: the result last handed to the callback; running: _run_connection has
\*   not reached its finally clause;
\*   now, slept, idle: seconds since the gather, in the current asyncio.sleep(3),
\*   and since the socket last carried a message of this client
NewConnection(key) ==
    [session_id |-> key, is_connected |-> TRUE, audio_queue |-> <<>>, stop_event |-> FALSE,
     taken |-> 0, forwarded |-> <<>>, keepalives |-> 0,
     receiver |-> "ready", keepalive |-> "ready", sender |-> "checking",
     result |-> NoMessage, running |-> TRUE, now |-> 0, slept |-> 0, idle |-> 0]

\* the object when connect() has returned False: the thread of _run_connection
\* was started and has not set is_connected within the wait of 20 x 0.1 s
PendingConnection(key) ==
    [NewConnection(key) EXCEPT !.is_connected = FALSE, !.receiver = "pending",
                               !.keepalive = "pending", !.sender = "pending"]

\* send_audio without the "if not self.is_connected: return False" guard
send_audio_unguarded(connection, chunk) ==
    [connection |-> [connection EXCEPT !.audio_queue = Append(@, chunk.id)],
     result |-> TRUE]

\* send_audio(audio_chunk): a plain function returning a bool
send_audio(connection, chunk) ==
    IF ~connection.is_connected
    THEN [connection |-> connection, result |-> FALSE]
    ELSE [connection |-> [connection EXCEPT !.audio_queue = Append(@, chunk.id)],
          result |-> TRUE]

\* close(): a plain function returning None
close(connection) ==
    [connection EXCEPT !.stop_event = TRUE,
                       !.audio_queue = Append(@, PoisonPill),
                       !.is_connected = FALSE]

\* "await x" where x is the bool or None a plain function returned
AwaitPlainValue == "TypeError"

----------------------------------------------------------------------------
(* Configuration *)

Configs ==
    [transcription_backend : {"whisper", "deepgram"},
     deepgram_use_streaming : BOOLEAN,
     bypass_vad : BOOLEAN,
     debug_show_hallucinations : BOOLEAN]

\* the field defaults of the TranscriptionConfig dataclass
DefaultConfig ==
    [transcription_backend |-> "whisper", deepgram_use_streaming |-> TRUE,
     bypass_vad |-> TRUE, debug_show_hallucinations |-> FALSE]

\* the configurations with the debug switch left at its default
ServiceConfigs ==
    {c \in Configs : c.debug_show_hallucinations = DefaultConfig.debug_show_hallucinations}

StreamingMode ==
    config.transcription_backend = "deepgram" /\ config.deepgram_use_streaming

\* _transcription_config as long as it is the object the service fetched at its
\* construction (self.config = get_transcription_config())
TheServiceConfig(c) == [is_service_config |-> TRUE, values |-> c]

\* get_transcription_config(): the values of the module global
get_transcription_config == transcription_config.values

\* update_transcription_config(updates), with one parameter in updates: changes
\* the object of the module global in place
UpdateConfig(c) ==
    /\ Cardinality({f \in DOMAIN c : c[f] # get_transcription_config[f]}) = 1
    /\ transcription_config' = [transcription_config EXCEPT !.values = c]
    /\ config' = IF transcription_config.is_service_config THEN c ELSE config
    /\ UNCHANGED <<audio_buffers, streaming_connections, released, vad_state,
                   speaker_profiles, calls, requests, emitted, clock, last>>

\* reset_transcription_config(): binds the module global to a new object with
\* the field defaults; the object the service holds is left as it is
ResetConfig ==
    /\ transcription_config' = [is_service_config |-> FALSE, values |-> DefaultConfig]
    /\ UNCHANGED <<config, audio_buffers, streaming_connections, released, vad_state,
                   speaker_profiles, calls, requests, emitted, clock, last>>

----------------------------------------------------------------------------
(* Transcription backends *)

\* a text of real speech, and a text that _is_hallucination recognises
\* (pattern 3, "thanks for watching")
SpokenText == "le voyant rouge clignote sur le routeur"

FabricatedText == "thanks for watching"

\* what a backend request comes back with: ok is FALSE for a non-200 status, a
\* timeout, a malformed response or an exception of the client
Responses == [ok : BOOLEAN, text : {"", SpokenText, FabricatedText}]

\* the two answers that tell the batch pipeline apart: a failed request and a
\* transcript of speech
BatchOutcomes == {[ok |-> FALSE, text |-> ""], [ok |-> TRUE, text |-> SpokenText]}

\* _is_hallucination(text), on the texts of Responses
is_hallucination(text) == text \in {"", FabricatedText}

HallucinationMarker == "[HALLUCINATION - AUDIO QUALITY ISSUE]"

\* _is_hallucination on the text of a result, given as the pieces of its
\* f-string: the phrase test is a containment test, so a fabricated phrase is
\* found behind the marker as well
text_is_hallucination(text) == \E j \in DOMAIN text : is_hallucination(text[j])

\* None as a transcription result
NoResult == [text |-> <<>>, confidence |-> 0]

\* _transcribe_with_whisper without the debug_show_hallucinations branch: the
\* text comes back as the backend gave it
transcribe_with_whisper_unmarked(cfg, response) ==
    IF ~response.ok \/ response.text = "" THEN NoResult
    ELSE IF is_hallucination(response.text) /\ ~cfg.debug_show_hallucinations THEN NoResult
    ELSE [text |-> <<response.text>>, confidence |-> 9]

\* _transcribe_with_whisper: the result dict (text as the pieces of the
\* f-string, confidence in tenths), or None
transcribe_with_whisper(cfg, response) ==
    IF ~response.ok \/ response.text = "" THEN NoResult
    ELSE IF is_hallucination(response.text)
    THEN IF cfg.debug_show_hallucinations
         THEN [text |-> <<HallucinationMarker, response.text>>, confidence |-> 0]
         ELSE NoResult
    ELSE [text |-> <<response.text>>, confidence |-> 9]

\* DeepgramTranscriptionService.transcribe and _parse_response
transcribe(response) ==
    IF ~response.ok \/ response.text = "" THEN NoResult
    ELSE [text |-> <<response.text>>, confidence |-> 9]

\* the backend branch of _transcribe_buffer and its two "return None" tests
TranscriptionResult(backend, cfg, response) ==
    IF backend = "deepgram" THEN transcribe(response)
    ELSE transcribe_with_whisper(cfg, response)

----------------------------------------------------------------------------
(* EnhancedTranscriptionService.process_audio_stream *)

\* what an operation hands back to its caller: a returned value or a raised error
Outcome(op, arg, value) == <<op, value>>

\* the streaming branch: await connection.send_audio(audio_chunk); return None
StreamChunk(key, chunk) ==
    LET sent == send_audio(streaming_connections[key], chunk)
    IN  /\ streaming_connections' = [streaming_connections EXCEPT ![key] = sent.connection]
        /\ last' = Outcome("process_audio_stream", key, AwaitPlainValue)
        /\ UNCHANGED <<audio_buffers, vad_state, calls, requests, emitted, released>>

\* the call of _transcribe_buffer and the buffer reset that follows it
Flush(session_id, speaker, key, buffer, chunk, timestamp, rate, pause, waiting_after, has_speech) ==
    IF ReachesBackend(buffer, speaker, has_speech)
        THEN /\ calls' = calls \cup
                   {[id |-> chunk.id, session_id |-> session_id, speaker |-> speaker,
                     key |-> key,
                     audio |-> [i \in 1..Len(buffer.chunks) |-> buffer.chunks[i].id],
                     combined_audio |-> buffer.chunks,
                     audio_sample_rate |-> buffer.sample_rate,
                     start_time |-> buffer.start_time, end_time |-> timestamp,
                     pause |-> pause, waiting_after |-> waiting_after,
                     initial_skip_start |-> buffer.initial_skip_start,
                     sample_rate |-> rate,
                     backend |-> config.transcription_backend]}
             /\ requests' = requests + 1
             /\ audio_buffers' = Put(audio_buffers, key, buffer)
             /\ UNCHANGED <<emitted, last>>
        ELSE /\ audio_buffers' = Put(audio_buffers, key,
                   NewBuffer(timestamp, waiting_after, buffer.initial_skip_start, rate))
             /\ last' = Outcome("process_audio_stream", key, "None")
             /\ UNCHANGED <<calls, requests, emitted>>

\* a buffer reset without transcription, or plain buffering
Store(key, buffer) ==
    /\ audio_buffers' = Put(audio_buffers, key, buffer)
    /\ last' = Outcome("process_audio_stream", key, "None")
    /\ UNCHANGED <<calls, requests, emitted>>

\* np.frombuffer(audio_data, dtype=np.int16) in check_speech_ended, outside any
\* try, on a chunk that is not a whole number of samples: the chunk is in the
\* buffer, the VAD state of the key exists, and the ValueError leaves
\* process_audio_stream
FrombufferRaises(key, vad_key, buffer) ==
    /\ audio_buffers' = Put(audio_buffers, key, buffer)
    /\ vad_state' = Put(vad_state, vad_key,
                        IF vad_key \in DOMAIN vad_state THEN vad_state[vad_key]
                        ELSE NewVadState)
    /\ last' = Outcome("process_audio_stream", key, "ValueError")
    /\ UNCHANGED <<calls, requests, emitted>>

\* a forced flush that passes on no pause
forced_pause_reset(force_transcribe, pause_duration_ms) == IF force_transcribe THEN 0 ELSE pause_duration_ms

\* "Keep the pause_duration_ms from VAD - don't reset it!"
forced_pause(force_transcribe, pause_duration_ms) == pause_duration_ms

\* a VAD state kept per session, for both speakers
vad_session_id_shared(session_id, key) == session_id

\* check_speech_ended(session_id=buffer_key, ...): "Use speaker-specific session
\* ID for independent VAD"
vad_session_id(session_id, key) == key

\* the buffered mode
BufferChunk(session_id, speaker, key, chunk, timestamp, sample_rate, has_speech) ==
    LET rate == effective_sample_rate(sample_rate, speaker)
        existing == IF key \in DOMAIN audio_buffers THEN audio_buffers[key]
                    ELSE NewBuffer(timestamp, TRUE, timestamp, rate)
        buffer == AppendChunk(existing, chunk, timestamp)
        min_bytes == IF buffer.sample_rate = 8000 THEN min_bytes_8k ELSE min_bytes_16k
        vad_key == vad_session_id(session_id, key)
        vad == check_speech_ended(vad_state, vad_key, chunk, timestamp)
        force_transcribe == DurationAtLeastTenths(buffer.total_duration, max_buffer_duration * 10)
        should_segment == vad.should_segment \/ force_transcribe
        reason == IF force_transcribe THEN "max_duration_exceeded" ELSE vad.reason
        discarded == NewBuffer(timestamp, TRUE, buffer.initial_skip_start, rate)
    IN  /\ UNCHANGED <<released, streaming_connections>>
        /\ IF config.bypass_vad
           THEN /\ UNCHANGED vad_state
                /\ IF TotalBytes(buffer.chunks) >= min_bytes
                   THEN Flush(session_id, speaker, key, buffer, chunk, timestamp, rate, 0,
                              FALSE, has_speech)
                   ELSE Store(key, buffer)
           ELSE IF chunk.bytes % sample_width # 0
           THEN FrombufferRaises(key, vad_key, buffer)
           ELSE /\ vad_state' = Put(vad_state, vad_key, vad.state)
                /\ IF ~should_segment THEN Store(key, buffer)
                   ELSE IF reason = "rms_too_low" THEN Store(key, discarded)
                   ELSE IF DurationAtLeastTenths(buffer.total_duration, min_speech_duration_tenths)
                   THEN Flush(session_id, speaker, key, buffer, chunk, timestamp, rate,
                              forced_pause(force_transcribe, vad.pause), TRUE, has_speech)
                   ELSE Store(key, discarded)

\* chunks submitted so far, over all channels
Submitted == Sum([i \in 1..Len(KeySeq) |-> clock[KeySeq[i]]])

\* process_audio_stream(session_id, audio_chunk, timestamp, speaker) up to its return
\* or to the backend call inside _transcribe_buffer.  has_speech is the verdict of
\* the Silero model on the combined audio.
ProcessAudioStreamAt(session_id, speaker, bytes, level, sample_rate, has_speech, timestamp) ==
    LET key == buffer_key(session_id, speaker)
        chunk == [id |-> clock[key] + 1, bytes |-> bytes, rms |-> level.rms,
                  peak |-> level.peak]
    IN  /\ clock' = [clock EXCEPT ![key] = @ + 1]
        /\ IF StreamingMode /\ key \in DOMAIN streaming_connections
           THEN StreamChunk(key, chunk)
           ELSE BufferChunk(session_id, speaker, key, chunk, timestamp, sample_rate,
                            has_speech)
        /\ UNCHANGED <<config, transcription_config, speaker_profiles>>

\* the call made by a caller that takes the timestamp from its clock, one chunk
\* every ChunkIntervalMs
ProcessAudioStream(session_id, speaker, bytes, level, sample_rate, has_speech) ==
    ProcessAudioStreamAt(session_id, speaker, bytes, level, sample_rate, has_speech,
                         (clock[buffer_key(session_id, speaker)] + 1) * ChunkIntervalMs)

\* a hand-over that reaches the sink twice
DeliverTwice(sink, result) == Append(Append(sink, result), result)

\* await self._process_with_agents(result)
Deliver(sink, result) == Append(sink, result)

\* a return from _transcribe_buffer that leaves the buffer as it is
KeepBuffer(buffers, call) == buffers

\* "Clear buffer after transcription": the assignment of a fresh buffer that
\* follows the call of _transcribe_buffer, whatever it returned
ClearBuffer(buffers, call) ==
    Put(buffers, call.key,
        NewBuffer(call.end_time, call.waiting_after, call.initial_skip_start,
                  call.sample_rate))

\* the backend answers a suspended call; the rest of _transcribe_buffer and the
\* buffer reset of process_audio_stream follow
BackendReturns(call, response) ==
    LET result == TranscriptionResult(call.backend, config, response)
    IN  /\ call \in calls
        /\ calls' = calls \ {call}
        /\ IF result # NoResult
           THEN /\ emitted' = Deliver(emitted,
                      [flush |-> call.id, key |-> call.key, audio |-> call.audio,
                       text |-> result.text, confidence |-> result.confidence,
                       start_time |-> call.start_time, end_time |-> call.end_time,
                       pause_duration_ms |-> call.pause])
                /\ last' = Outcome("process_audio_stream", call.key, "segment")
           ELSE /\ UNCHANGED emitted
                /\ last' = Outcome("process_audio_stream", call.key, "None")
        /\ audio_buffers' = ClearBuffer(audio_buffers, call)
        /\ UNCHANGED <<config, transcription_config, streaming_connections, released, vad_state,
                       speaker_profiles, requests, clock>>

----------------------------------------------------------------------------
(* Session lifecycle *)

\* register_speaker: self.speaker_profiles[f"{session_id}:{speaker_id}"] = {...}
register_speaker(profiles, session_id, speaker_id, speaker_role) ==
    Put(profiles, <<session_id, speaker_id>>,
        [speaker_id |-> speaker_id, speaker_role |-> speaker_role,
         session_id |-> session_id])

\* the registration of one channel's connection in initialize_session:
\* established is what transcribe_streaming achieved within its bounded wait
RegisterConnection(state, key, established) ==
    IF established
    THEN [streaming_connections |-> Put(state.streaming_connections, key, NewConnection(key)),
          released |-> state.released \cup
                           {state.streaming_connections[k] :
                                k \in {key} \cap DOMAIN state.streaming_connections}]
    ELSE state

\* what initialize_session hands back to its caller
InitializeResult(technician_established, agent_established) == "None"

\* what connect() found when its wait was over; "failed": _run_connection has
\* ended in its except clause; "pending": it is still opening the socket
ConnectOutcomes == {"connected", "failed", "pending"}

ConnectOutcome(established) == IF established THEN "connected" ELSE "failed"

\* the registration of one channel's connection, by the outcome of connect():
\* transcribe_streaming returns None for "failed" and for "pending", and keeps
\* no reference to the object whose thread it started
RegisterOutcome(state, key, outcome) ==
    IF outcome = "pending"
    THEN [state EXCEPT !.released = @ \cup {PendingConnection(key)}]
    ELSE RegisterConnection(state, key, outcome = "connected")

\* initialize_session(session_id, technician_id, technician_name), by the
\* outcomes of the two connect() calls
InitializeSessionOutcomes(session_id, technician_id, technician_outcome, agent_outcome) ==
    LET before == [streaming_connections |-> streaming_connections, released |-> {}]
        technician == RegisterOutcome(before, buffer_key(session_id, "technician"),
                                      technician_outcome)
        agent == RegisterOutcome(technician, buffer_key(session_id, "agent"), agent_outcome)
    IN  /\ speaker_profiles' =
               register_speaker(
                   register_speaker(speaker_profiles, session_id, technician_id, "technician"),
                   session_id, "ai_assistant", "support_agent")
        /\ IF StreamingMode
           THEN /\ streaming_connections' = agent.streaming_connections
                /\ released' = agent.released
                /\ last' = Outcome("initialize_session", session_id,
                                   InitializeResult(technician_outcome = "connected",
                                                    agent_outcome = "connected"))
           ELSE /\ UNCHANGED streaming_connections
                /\ released' = {}
                /\ last' = Outcome("initialize_session", session_id, "None")
        /\ UNCHANGED <<config, transcription_config, audio_buffers, vad_state, calls, requests, emitted, clock>>

\* initialize_session when every thread that has not connected within the wait
\* has ended
InitializeSession(session_id, technician_id, technician_established, agent_established) ==
    InitializeSessionOutcomes(session_id, technician_id,
                              ConnectOutcome(technician_established),
                              ConnectOutcome(agent_established))

\* the thread of a connection that connect() gave up on gets its socket open:
\* _run_connection sets is_connected and starts the three coroutines
LateConnect(c) ==
    /\ c \in released
    /\ c.receiver = "pending"
    /\ released' = (released \ {c}) \cup {NewConnection(c.session_id)}
    /\ last' = Outcome("_run_connection", c.session_id, "connected")
    /\ UNCHANGED <<config, transcription_config, audio_buffers, streaming_connections, vad_state,
                   speaker_profiles, calls, requests, emitted, clock>>

\* the thread of a connection that connect() gave up on fails to open the
\* socket: except, finally, and the thread ends
ConnectFails(c) ==
    /\ c \in released
    /\ c.receiver = "pending"
    /\ released' = (released \ {c}) \cup
                       {[c EXCEPT !.running = FALSE, !.receiver = "ended",
                                  !.keepalive = "ended", !.sender = "ended"]}
    /\ last' = Outcome("_run_connection", c.session_id, "failed")
    /\ UNCHANGED <<config, transcription_config, audio_buffers, streaming_connections, vad_state,
                   speaker_profiles, calls, requests, emitted, clock>>

\* _run_connection ends (socket closed by the remote end, or an error): finally
\* self.is_connected = False
ConnectionLost(key) ==
    /\ key \in DOMAIN streaming_connections
    /\ streaming_connections[key].is_connected
    /\ streaming_connections' = [streaming_connections EXCEPT ![key].is_connected = FALSE]
    /\ UNCHANGED <<config, transcription_config, audio_buffers, released, vad_state,
                   speaker_profiles, calls, requests, emitted, clock, last>>

\* SpeakerDiarizationService.clear_session(session_id): profiles
clear_profiles(profiles, session_id) ==
    Remove(profiles, {k \in DOMAIN profiles : profiles[k].session_id = session_id})

\* SpeakerDiarizationService.clear_session(session_id): VAD state
clear_vad(states, session_id) == Remove(states, {session_id})

\* the keys end_session selects in a dict
SessionKeys(dict, session_id) == {k \in DOMAIN dict : StartsWith(k, session_id)}

\* end_session: the session's streaming connections after connection.close()
\* (await connection.close() raises after close() has run; the error is caught)
EndConnections(registered, session_id) ==
    {close(registered[k]) : k \in SessionKeys(registered, session_id)}

\* end_session: del self.audio_buffers[buffer_key] for the session's keys
EndBuffers(buffers, session_id) == Remove(buffers, SessionKeys(buffers, session_id))

\* end_session without clear_session(f"{session_id}_agent")
EndVadTechnicianOnly(states, session_id) ==
    clear_vad(clear_vad(states, session_id), buffer_key(session_id, "technician"))

\* end_session: the three clear_session calls
EndVad(states, session_id) ==
    clear_vad(clear_vad(clear_vad(states, session_id),
                        buffer_key(session_id, "technician")),
              buffer_key(session_id, "agent"))

EndProfiles(profiles, session_id) ==
    clear_profiles(clear_profiles(clear_profiles(profiles, session_id),
                                  buffer_key(session_id, "technician")),
                   buffer_key(session_id, "agent"))

\* "await connection.close()" outside any try/except
CloseErrorEscapes == FALSE

\* the try/except Exception around "await connection.close()"
CloseErrorCaught == TRUE

\* what end_session hands back: the statistics, or the error of a close that
\* nothing caught
EndResult(registered, session_id) ==
    IF SessionKeys(registered, session_id) # {} /\ ~CloseErrorCaught
    THEN AwaitPlainValue ELSE "stats"

\* the state of the two services that end_session works on
ServiceState ==
    [released |-> released, streaming_connections |-> streaming_connections,
     audio_buffers |-> audio_buffers, vad_state |-> vad_state,
     speaker_profiles |-> speaker_profiles, last |-> last]

\* end_session(session_id) as a function of the state
EndState(st, session_id) ==
    [released |-> EndConnections(st.streaming_connections, session_id),
     streaming_connections |->
         Remove(st.streaming_connections, SessionKeys(st.streaming_connections, session_id)),
     audio_buffers |-> EndBuffers(st.audio_buffers, session_id),
     vad_state |-> EndVad(st.vad_state, session_id),
     speaker_profiles |-> EndProfiles(st.speaker_profiles, session_id),
     last |-> Outcome("end_session", session_id,
                      EndResult(st.streaming_connections, session_id))]

\* end_session(session_id)
EndSession(session_id) ==
    LET after == EndState(ServiceState, session_id)
    IN  /\ last' = after.last
        /\ released' = after.released
        /\ streaming_connections' = after.streaming_connections
        /\ audio_buffers' = after.audio_buffers
        /\ vad_state' = after.vad_state
        /\ speaker_profiles' = after.speaker_profiles
        /\ UNCHANGED <<config, transcription_config, calls, requests, emitted, clock>>

----------------------------------------------------------------------------
(* DeepgramAsyncConnection: the three coroutines of _run_connection *)

\* await asyncio.sleep(3) in _keepalive_loop, in seconds
keepalive_interval == 3

\* what the socket delivers: interim and final results, with or without a
\* transcript
Messages == [is_final : BOOLEAN, text : {"", SpokenText}]

\* asyncio.create_task(coro), called by the callback in the executor thread, where
\* no event loop is running: RuntimeError, and nothing is scheduled
create_task(sink, result) == sink

\* a callback that hands every result with a text to _process_with_agents
on_transcript_any(sink, key, result) ==
    IF result.text # ""
    THEN Deliver(sink, [key |-> key, text |-> <<result.text>>, confidence |-> 9,
                        is_final |-> result.is_final])
    ELSE sink

\* on_transcript(result) of _create_streaming_callback, in its try/except
on_transcript(sink, key, result) ==
    IF result.is_final /\ result.text # ""
    THEN create_task(sink, [key |-> key, text |-> <<result.text>>, confidence |-> 9,
                            is_final |-> result.is_final])
    ELSE sink

\* the event loop thread is inside a synchronous call of the receiver: the
\* iteration of "for result in connection.recv()", which has no await
ReceiverHoldsLoop(c) == c.receiver \in {"ready", "waiting"}

\* the event loop thread is inside self._audio_queue.get(timeout=0.1)
SenderHoldsLoop(c) == c.sender = "getting"

\* a step of one connection object that touches nothing else
ConnectionStep(key, c) ==
    /\ streaming_connections' = [streaming_connections EXCEPT ![key] = c]
    /\ UNCHANGED <<config, transcription_config, audio_buffers, released, vad_state, speaker_profiles, calls,
                   requests, emitted, clock, last>>

\* _receive_loop up to the first iteration of connection.recv(): the iteration
\* waits for a result, or raises or is exhausted at once ("Receiver ended")
ReceiverStart(key, waits) ==
    LET c == streaming_connections[key]
    IN  /\ c.running /\ c.receiver = "ready"
        /\ ConnectionStep(key, [c EXCEPT !.receiver = IF waits THEN "waiting" ELSE "ended"])

\* a result arrives while the receiver waits: the stop test, then _process_result
\* up to "await loop.run_in_executor(None, self.on_transcript, ...)"; a result
\* without transcript sends the receiver back into the iteration
ResultArrives(key, result) ==
    LET c == streaming_connections[key]
    IN  /\ c.running /\ c.receiver = "waiting"
        /\ ConnectionStep(key,
               IF c.stop_event THEN [c EXCEPT !.receiver = "ended"]
               ELSE IF result.text = "" THEN c
               ELSE [c EXCEPT !.receiver = "processing", !.result = result])

\* the callback returns in the executor thread and the receiver goes on with the
\* next iteration, which waits, or raises or is exhausted
CallbackReturns(key, waits) ==
    LET c == streaming_connections[key]
    IN  /\ c.running /\ c.receiver = "processing" /\ ~SenderHoldsLoop(c)
        /\ emitted' = on_transcript(emitted, key, c.result)
        /\ streaming_connections' = [streaming_connections EXCEPT ![key] =
               [c EXCEPT !.receiver = IF waits THEN "waiting" ELSE "ended"]]
        /\ UNCHANGED <<config, transcription_config, audio_buffers, released, vad_state, speaker_profiles,
                       calls, requests, clock, last>>

\* _keepalive_loop up to its first await asyncio.sleep(3)
KeepaliveStart(key) ==
    LET c == streaming_connections[key]
    IN  /\ c.running /\ c.keepalive = "ready"
        /\ ~ReceiverHoldsLoop(c) /\ ~SenderHoldsLoop(c)
        /\ ConnectionStep(key, [c EXCEPT !.keepalive = IF c.stop_event THEN "ended"
                                                        ELSE "sleeping",
                                         !.slept = 0])

\* the sleep is over and the event loop resumes _keepalive_loop: the keepalive
\* is sent if the connection is connected and not stopped (send_control may
\* raise), then the loop test and the next sleep
KeepaliveWake(key, ok) ==
    LET c == streaming_connections[key]
        sends == c.is_connected /\ ~c.stop_event
    IN  /\ c.running /\ c.keepalive = "sleeping" /\ c.slept >= keepalive_interval
        /\ ~ReceiverHoldsLoop(c) /\ ~SenderHoldsLoop(c)
        /\ ConnectionStep(key,
               IF sends /\ ~ok THEN [c EXCEPT !.keepalive = "failed"]
               ELSE [c EXCEPT !.keepalives = IF sends THEN @ + 1 ELSE @,
                              !.idle = IF sends THEN 0 ELSE @,
                              !.slept = 0,
                              !.keepalive = IF c.stop_event THEN "ended" ELSE "sleeping"])

\* _audio_sender_loop: the test "while not self._stop_event.is_set()"
SenderCheck(key) ==
    LET c == streaming_connections[key]
    IN  /\ c.running /\ c.sender = "checking" /\ ~ReceiverHoldsLoop(c)
        /\ ConnectionStep(key, [c EXCEPT !.sender = IF c.stop_event THEN "ended"
                                                     ELSE "getting"])

\* _audio_sender_loop: self._audio_queue.get(timeout=0.1) and what follows: the
\* poison pill ends the loop, a chunk goes to send_media (which may raise: the
\* outer handler logs and the loop is over), Empty leads to asyncio.sleep(0.01)
SenderGet(key, ok) ==
    LET c == streaming_connections[key]
        item == c.audio_queue[c.taken + 1]
    IN  /\ c.running /\ c.sender = "getting"
        /\ ConnectionStep(key,
               IF c.taken = Len(c.audio_queue) THEN [c EXCEPT !.sender = "checking"]
               ELSE IF item = PoisonPill
               THEN [c EXCEPT !.taken = @ + 1, !.sender = "ended"]
               ELSE IF ok
               THEN [c EXCEPT !.taken = @ + 1, !.forwarded = Append(@, item),
                              !.idle = 0, !.sender = "checking"]
               ELSE [c EXCEPT !.taken = @ + 1, !.sender = "failed"])

\* asyncio.gather(..., return_exceptions=True) returns when the three coroutines
\* are over; the finally clause of _run_connection sets is_connected to False
RunConnectionEnds(key) ==
    LET c == streaming_connections[key]
    IN  /\ c.running
        /\ c.receiver = "ended"
        /\ c.keepalive \in {"ended", "failed"}
        /\ c.sender \in {"ended", "failed"}
        /\ ConnectionStep(key, [c EXCEPT !.running = FALSE, !.is_connected = FALSE])

\* a second of time passes
Tick(key) ==
    LET c == streaming_connections[key]
    IN  /\ c.running /\ c.now < MaxSeconds
        /\ ConnectionStep(key,
               [c EXCEPT !.now = @ + 1, !.idle = @ + 1,
                         !.slept = IF c.keepalive = "sleeping" /\ @ < keepalive_interval
                                   THEN @ + 1 ELSE @])

\* a caller thread calls connection.send_audio(audio_chunk)
SendAudio(key) ==
    LET sent == send_audio(streaming_connections[key], [id |-> clock[key] + 1])
    IN  /\ Submitted < MaxStreamChunks
        /\ clock' = [clock EXCEPT ![key] = @ + 1]
        /\ streaming_connections' = [streaming_connections EXCEPT ![key] = sent.connection]
        /\ last' = Outcome("send_audio", key, IF sent.result THEN "True" ELSE "False")
        /\ UNCHANGED <<config, transcription_config, audio_buffers, released, vad_state, speaker_profiles, calls,
                       requests, emitted>>

\* a caller thread calls connection.close()
Close(key) ==
    /\ ~streaming_connections[key].stop_event
    /\ streaming_connections' = [streaming_connections EXCEPT ![key] = close(@)]
    /\ last' = Outcome("close", key, "None")
    /\ UNCHANGED <<config, transcription_config, audio_buffers, released, vad_state, speaker_profiles, calls,
                   requests, emitted, clock>>

----------------------------------------------------------------------------
(* Specification *)

Init ==
    /\ config = DefaultConfig
    /\ transcription_config = TheServiceConfig(config)
    /\ audio_buffers = <<>>
    /\ streaming_connections = <<>>
    /\ released = {}
    /\ vad_state = <<>>
    /\ speaker_profiles = <<>>
    /\ calls = {}
    /\ requests = 0
    /\ emitted = <<>>
    /\ clock = [k \in AllKeys |-> 0]
    /\ last = Outcome("init", <<>>, "None")

\* a caller submits a chunk; verdicts are the answers of the Silero model
Submit(max, levels, rates, verdicts) ==
    /\ Submitted < max
    /\ \E s \in Sessions, sp \in Speakers, b \in ChunkBytes, lv \in levels, r \in rates,
          hs \in verdicts : ProcessAudioStream(s, sp, b, lv, r, hs)

\* the whole service
Next ==
    \/ Submit(MaxChunks, ChunkLevels, {NoRate}, BOOLEAN)
    \/ \E c \in calls, r \in BatchOutcomes : BackendReturns(c, r)
    \/ \E s \in Sessions, t \in TechnicianIds, te \in BOOLEAN, ae \in BOOLEAN :
          InitializeSession(s, t, te, ae)
    \/ \E s \in Sessions : EndSession(s)
    \/ \E k \in AllKeys : ConnectionLost(k)
    \/ \E c \in ServiceConfigs : UpdateConfig(c)

Spec == Init /\ [][Next]_vars

\* the buffered pipeline: a batch backend (Whisper or Deepgram REST), either
\* segmentation policy
InitPipeline ==
    /\ config \in {c \in ServiceConfigs : ~(c.transcription_backend = "deepgram"
                                            /\ c.deepgram_use_streaming)}
    /\ transcription_config = TheServiceConfig(config)
    /\ audio_buffers = <<>>
    /\ streaming_connections = <<>>
    /\ released = {}
    /\ vad_state = <<>>
    /\ speaker_profiles = <<>>
    /\ calls = {}
    /\ requests = 0
    /\ emitted = <<>>
    /\ clock = [k \in AllKeys |-> 0]
    /\ last = Outcome("init", <<>>, "None")

NextPipeline ==
    \/ Submit(MaxUtteranceChunks, ChunkLevels, {NoRate}, BOOLEAN)
    \/ \E c \in calls, r \in BatchOutcomes : BackendReturns(c, r)
    \/ \E s \in Sessions : EndSession(s)

SpecPipeline == InitPipeline /\ [][NextPipeline]_vars

\* _transcribe_buffer: the quality gate and the batch backends, with byte-count
\* triggering, every debug setting, every level, every sample rate and every
\* answer of the backend, on audio in which the Silero model finds speech
InitBackends ==
    /\ config \in {c \in Configs : ~c.deepgram_use_streaming /\ c.bypass_vad}
    /\ transcription_config = TheServiceConfig(config)
    /\ audio_buffers = <<>>
    /\ streaming_connections = <<>>
    /\ released = {}
    /\ vad_state = <<>>
    /\ speaker_profiles = <<>>
    /\ calls = {}
    /\ requests = 0
    /\ emitted = <<>>
    /\ clock = [k \in AllKeys |-> 0]
    /\ last = Outcome("init", <<>>, "None")

NextBackends ==
    \/ Submit(MaxBackendChunks, GateLevels, SampleRates, {TRUE})
    \/ \E c \in calls, r \in Responses : BackendReturns(c, r)

SpecBackends == InitBackends /\ [][NextBackends]_vars

\* a caller submits a chunk of one of the given lengths
SubmitSized(max, sizes, levels, rates, verdicts) ==
    /\ Submitted < max
    /\ \E s \in Sessions, sp \in Speakers, b \in sizes, lv \in levels, r \in rates,
          hs \in verdicts : ProcessAudioStream(s, sp, b, lv, r, hs)

\* the bookkeeping of the buffer while it fills: frames of speech of every
\* length, either segmentation policy, a batch backend
InitDuration ==
    /\ config \in {c \in ServiceConfigs : ~(c.transcription_backend = "deepgram"
                                            /\ c.deepgram_use_streaming)}
    /\ transcription_config = TheServiceConfig(config)
    /\ audio_buffers = <<>>
    /\ streaming_connections = <<>>
    /\ released = {}
    /\ vad_state = <<>>
    /\ speaker_profiles = <<>>
    /\ calls = {}
    /\ requests = 0
    /\ emitted = <<>>
    /\ clock = [k \in AllKeys |-> 0]
    /\ last = Outcome("init", <<>>, "None")

NextDuration ==
    SubmitSized(MaxDurationChunks, FrameBytes, {[rms |-> 2000, peak |-> 6000]},
                SampleRates, {TRUE})

SpecDuration == InitDuration /\ [][NextDuration]_vars

\* the channels of two sessions at a time, either segmentation policy, Whisper
ChannelKeys == {buffer_key(s, sp) : s \in TwoSessions, sp \in Speakers}

InitChannels ==
    /\ config \in {c \in ServiceConfigs : c.transcription_backend = "whisper"
                                           /\ ~c.deepgram_use_streaming}
    /\ transcription_config = TheServiceConfig(config)
    /\ audio_buffers = <<>>
    /\ streaming_connections = <<>>
    /\ released = {}
    /\ vad_state = <<>>
    /\ speaker_profiles = <<>>
    /\ calls = {}
    /\ requests = 0
    /\ emitted = <<>>
    /\ clock = [k \in ChannelKeys |-> 0]
    /\ last = Outcome("init", <<>>, "None")

\* a caller of one of the two sessions submits a chunk
SubmitAmong(sessions, max) ==
    /\ Sum([i \in 1..Len(SeqOf(ChannelKeys)) |-> clock[SeqOf(ChannelKeys)[i]]]) < max
    /\ \E s \in sessions, sp \in Speakers, b \in ChunkBytes, lv \in ChunkLevels :
          ProcessAudioStream(s, sp, b, lv, NoRate, TRUE)

NextChannels ==
    \/ SubmitAmong(TwoSessions, MaxChannelChunks)
    \/ \E c \in calls, r \in BatchOutcomes : BackendReturns(c, r)

SpecChannels == InitChannels /\ [][NextChannels]_vars

\* the caller of a channel feeds it the next chunk of the scenario
FeedScenario(session_id, speaker) ==
    LET i == clock[buffer_key(session_id, speaker)] + 1
        timestamp == i * ScenarioB.step_ms
        bytes == (default_sample_rate(speaker) * sample_width * ScenarioB.step_ms) \div 1000
        level == IF timestamp <= ScenarioB.speech_ms
                 THEN [rms |-> 2000, peak |-> 6000] ELSE [rms |-> 20, peak |-> 60]
    IN  /\ timestamp <= ScenarioB.speech_ms + ScenarioB.silence_ms
        /\ ProcessAudioStreamAt(session_id, speaker, bytes, level,
                                default_sample_rate(speaker), TRUE, timestamp)

\* both channels of a session fed the scenario, under the VAD policy, Whisper
InitScenario ==
    /\ config = [DefaultConfig EXCEPT !.bypass_vad = FALSE, !.deepgram_use_streaming = FALSE]
    /\ transcription_config = TheServiceConfig(config)
    /\ audio_buffers = <<>>
    /\ streaming_connections = <<>>
    /\ released = {}
    /\ vad_state = <<>>
    /\ speaker_profiles = <<>>
    /\ calls = {}
    /\ requests = 0
    /\ emitted = <<>>
    /\ clock = [k \in AllKeys |-> 0]
    /\ last = Outcome("init", <<>>, "None")

NextScenario ==
    \/ \E s \in Sessions, sp \in Speakers : FeedScenario(s, sp)
    \/ \E c \in calls, r \in BatchOutcomes : BackendReturns(c, r)

SpecScenario == InitScenario /\ [][NextScenario]_vars

\* the service and the configuration routes: updates and resets of the
\* configuration between the chunks
NextConfig ==
    \/ Submit(MaxChunks, ChunkLevels, {NoRate}, {TRUE})
    \/ \E c \in calls, r \in BatchOutcomes : BackendReturns(c, r)
    \/ \E c \in ServiceConfigs : UpdateConfig(c)
    \/ ResetConfig

SpecConfig == Init /\ [][NextConfig]_vars

\* one streaming connection, of the technician channel, from the moment connect()
\* has returned True
InitConnection ==
    /\ config = [DefaultConfig EXCEPT !.transcription_backend = "deepgram"]
    /\ transcription_config = TheServiceConfig(config)
    /\ audio_buffers = <<>>
    /\ \E s \in Sessions :
          streaming_connections =
              (buffer_key(s, "technician") :> NewConnection(buffer_key(s, "technician")))
    /\ released = {}
    /\ vad_state = <<>>
    /\ speaker_profiles = <<>>
    /\ calls = {}
    /\ requests = 0
    /\ emitted = <<>>
    /\ clock = [k \in AllKeys |-> 0]
    /\ last = Outcome("init", <<>>, "None")

NextConnection ==
    \/ \E k \in DOMAIN streaming_connections : SendAudio(k)
    \/ \E k \in DOMAIN streaming_connections : Close(k)
    \/ \E k \in DOMAIN streaming_connections, waits \in BOOLEAN : ReceiverStart(k, waits)
    \/ \E k \in DOMAIN streaming_connections, m \in Messages : ResultArrives(k, m)
    \/ \E k \in DOMAIN streaming_connections, waits \in BOOLEAN : CallbackReturns(k, waits)
    \/ \E k \in DOMAIN streaming_connections : KeepaliveStart(k)
    \/ \E k \in DOMAIN streaming_connections, ok \in BOOLEAN : KeepaliveWake(k, ok)
    \/ \E k \in DOMAIN streaming_connections : SenderCheck(k)
    \/ \E k \in DOMAIN streaming_connections, ok \in BOOLEAN : SenderGet(k, ok)
    \/ \E k \in DOMAIN streaming_connections : RunConnectionEnds(k)
    \/ \E k \in DOMAIN streaming_connections : Tick(k)

SpecConnection == InitConnection /\ [][NextConnection]_vars

----------------------------------------------------------------------------
(* Properties *)

Technician == buffer_key(<<"a">>, "technician")

Agent == buffer_key(<<"a">>, "agent")

\* the entry of a dict for a key, <<>> when the key is absent
Entry(dict, key) == IF key \in DOMAIN dict THEN <<dict[key]>> ELSE <<>>

\* this step is a process_audio_stream call for the key
SubmitsOn(key) == clock'[key] = clock[key] + 1

\* the key has a registered connection that is connected
Connected(key) ==
    /\ key \in DOMAIN streaming_connections
    /\ streaming_connections[key].is_connected

\* C1: every flush (one call of _transcribe_buffer, named by the chunk that
\* triggered it on its channel) hands at most one segment to the sink, whatever
\* is submitted on the other channel meanwhile.
C1_AtMostOneSegmentPerFlush ==
    \A i, j \in DOMAIN emitted :
        (emitted[i].key = emitted[j].key /\ emitted[i].flush = emitted[j].flush) => i = j

\* a segment of the technician channel was handed over while a call of the agent
\* channel was suspended in its backend call
C1_Witness ==
    /\ \E i \in DOMAIN emitted : emitted[i].key = Technician
    /\ \E c \in calls : c.key = Agent

\* C2: the segments of one channel are handed over in the order in which their
\* audio was submitted.
C2_FifoPerChannel ==
    \A i, j \in DOMAIN emitted :
        (i < j /\ emitted[i].key = emitted[j].key) => emitted[i].flush < emitted[j].flush

\* C3: while a call is suspended in the backend call for a channel, no other
\* call changes that channel's buffer, VAD state or connection entry.
C3_OneMutationInFlight ==
    [][\A k \in AllKeys :
          LET suspended == {c \in calls : c.key = k}
          IN  (suspended # {} /\ suspended \subseteq calls') =>
                  /\ Entry(audio_buffers', k) = Entry(audio_buffers, k)
                  /\ Entry(vad_state', k) = Entry(vad_state, k)
                  /\ Entry(streaming_connections', k) = Entry(streaming_connections, k)]_vars

\* the session has no streaming connection, buffer, VAD state or registry entry
TornDown(session_id) ==
    /\ SessionKeys(streaming_connections, session_id) = {}
    /\ SessionKeys(audio_buffers, session_id) = {}
    /\ \A sp \in Speakers : buffer_key(session_id, sp) \notin DOMAIN vad_state
    /\ \A k \in DOMAIN speaker_profiles : speaker_profiles[k].session_id # session_id

\* close() has run on the connection
Closed(connection) ==
    /\ ~connection.is_connected
    /\ connection.stop_event
    /\ Len(connection.audio_queue) > 0
    /\ connection.audio_queue[Len(connection.audio_queue)] = PoisonPill

\* C4: when end_session(S) returns, no streaming connection, audio buffer, VAD
\* state or registry entry of S remains, and every connection that was registered
\* for S when it was called has been closed.
C4_EndSessionTearsDown ==
    [][\A s \in Sessions :
          (last'[1] = "end_session" /\ EndSession(s)) =>
              /\ TornDown(s)'
              /\ \A k \in SessionKeys(streaming_connections, s) :
                     \E c \in released' :
                         /\ c.session_id = k
                         /\ Closed(c)
                         /\ c.audio_queue =
                                Append(streaming_connections[k].audio_queue, PoisonPill)]_vars

\* end_session has returned for a session that had submitted audio under the VAD
\* policy and had a registered connection, now closed
C4_Witness ==
    /\ last = Outcome("end_session", <<"a">>, "stats")
    /\ TornDown(<<"a">>)
    /\ Submitted > 0
    /\ ~config.bypass_vad
    /\ \E c \in released : Closed(c)

\* C5: from every reachable state (nothing initialized, one channel only, a
\* buffer only, a connection only, or just after an end_session) end_session
\* returns the statistics without raising, and a second end_session right after
\* it leaves the state the first one left and finds no connection to close.
C5_EndSessionIdempotentTotal ==
    \A s \in Sessions :
        LET once == EndState(ServiceState, s)
        IN  /\ once.last = Outcome("end_session", s, "stats")
            /\ EndState(once, s) = [once EXCEPT !.released = {}]

\* end_session has returned for a session of which only one channel had a
\* connection, and no buffer
C5_Witness ==
    /\ last = Outcome("end_session", <<"a">>, "stats")
    /\ Cardinality(released) = 1
    /\ \A c \in released : Closed(c)
    /\ Submitted = 0

\* C6: no channel key has both an audio buffer and a streaming connection.
C6_BufferStreamingExclusive ==
    \A k \in AllKeys : ~(k \in DOMAIN audio_buffers /\ k \in DOMAIN streaming_connections)

\* the chunk of this step is in the channel's buffer, or the buffer was reset
BufferedPath(key) ==
    /\ key \in DOMAIN audio_buffers'
    /\ \/ audio_buffers'[key].chunks = <<>>
       \/ \E i \in DOMAIN audio_buffers'[key].chunks :
              audio_buffers'[key].chunks[i].id = clock'[key]

C8_StreamingBypassesBuffer ==
    [][\A k \in AllKeys :
          (StreamingMode /\ SubmitsOn(k) /\ Connected(k)) =>
              /\ streaming_connections'[k].audio_queue =
                     Append(streaming_connections[k].audio_queue, clock'[k])
              /\ Entry(audio_buffers', k) = Entry(audio_buffers, k)
              /\ Entry(vad_state', k) = Entry(vad_state, k)
              /\ last' = Outcome("process_audio_stream", k, "None")]_vars

\* C9: process_audio_stream ends by returning None or a segment, never by
\* raising.
C9_NeverRaises ==
    last[1] = "process_audio_stream" => last[2] \in {"None", "segment"}

\* C10: when a streaming connection of initialize_session is not established,
\* what initialize_session hands back differs from what a successful
\* initialization hands back.
C10_InitFailureReported ==
    [][\A s \in Sessions, t \in TechnicianIds, te \in BOOLEAN, ae \in BOOLEAN :
          (StreamingMode /\ ~(te /\ ae) /\ InitializeSession(s, t, te, ae)) =>
              last' # Outcome("initialize_session", s, InitializeResult(TRUE, TRUE))]_vars

\* no answer of the backend is in use: a failed request, or an empty text
Unusable(response) == ~response.ok \/ response.text = ""

\* the backend gave a text that _is_hallucination recognises
Fabricated(response) ==
    response.ok /\ response.text # "" /\ is_hallucination(response.text)

\* C16: with debug_show_hallucinations off, no emitted segment carries a text
\* for which _is_hallucination is true, whichever backend produced it.
C16_NoHallucinationEmitted ==
    ~config.debug_show_hallucinations =>
        \A i \in DOMAIN emitted : ~text_is_hallucination(emitted[i].text)

\* C17: when Whisper answers with a fabricated text, the call returns None and
\* emits nothing if debug_show_hallucinations is false; if it is true, the one
\* segment emitted carries the marker before the text and confidence 0.
C17_WhisperFabricatedDroppedOrMarked ==
    [][\A c \in calls, r \in Responses :
          (c.backend = "whisper" /\ Fabricated(r) /\ BackendReturns(c, r)) =>
              IF config.debug_show_hallucinations
              THEN /\ Len(emitted') = Len(emitted) + 1
                   /\ SubSeq(emitted', 1, Len(emitted)) = emitted
                   /\ emitted'[Len(emitted')].text = <<HallucinationMarker, r.text>>
                   /\ emitted'[Len(emitted')].confidence = 0
              ELSE /\ emitted' = emitted
                   /\ last' = Outcome("process_audio_stream", c.key, "None")]_vars

\* a fabricated text went through in debug mode, marked and with confidence 0
C17_Witness ==
    /\ config.transcription_backend = "whisper"
    /\ config.debug_show_hallucinations
    /\ \E i \in DOMAIN emitted :
          /\ emitted[i].text = <<HallucinationMarker, FabricatedText>>
          /\ emitted[i].confidence = 0

\* C18: when the backend yields no usable text for a flushed utterance, the call
\* returns None, nothing is emitted, no backend call is started in its place,
\* and the channel buffer is left empty.
C18_UnusableStopsUtterance ==
    [][\A c \in calls, r \in Responses :
          (Unusable(r) /\ BackendReturns(c, r)) =>
              /\ last' = Outcome("process_audio_stream", c.key, "None")
              /\ emitted' = emitted
              /\ calls' = calls \ {c}
              /\ requests' = requests
              /\ c.key \in DOMAIN audio_buffers'
              /\ audio_buffers'[c.key].chunks = <<>>
              /\ audio_buffers'[c.key].total_duration.samples = 0]_vars

\* the one Deepgram request, made for the technician's first chunk, came back
\* unusable: nothing is in flight, nothing was emitted, the buffer is empty
C18_Witness ==
    /\ config.transcription_backend = "deepgram"
    /\ requests = 1
    /\ clock[Technician] = 1
    /\ Technician \in DOMAIN audio_buffers
    /\ audio_buffers[Technician].chunks = <<>>
    /\ calls = {}
    /\ emitted = <<>>
    /\ last = Outcome("process_audio_stream", Technician, "None")

\* the rule of the gate for a minimum m: RMS below m with the peak below
\* max_amplitude_silence, or RMS below m/2
RuleRejects(chunks, m) ==
    \/ /\ SumSquares(chunks) < m * m * SumWeights(chunks)
       /\ MaxPeak(chunks) < max_amplitude_silence
    \/ 4 * SumSquares(chunks) < m * m * SumWeights(chunks)

\* the minimum that goes with the buffer's sample rate
ApplicableMinimum(rate) == IF rate = 8000 THEN min_rms_8k ELSE min_rms_16k

\* the byte count that goes with the buffer's sample rate
ApplicableBytes(rate) == IF rate = 8000 THEN min_bytes_8k ELSE min_bytes_16k

\* the minimum that goes with the channel role
RoleMinimum(speaker) == IF speaker = "technician" THEN min_rms_8k ELSE min_rms_16k

C20_ThresholdByRole ==
    \A c \in calls : ~RuleRejects(c.combined_audio, RoleMinimum(c.speaker))

\* C21: after every append, for every sequence of chunk lengths, the buffer's
\* total_duration is exactly (bytes in the buffer) / 2 / (sample rate of the
\* buffer).
C21_DurationIsBytesOverTwoOverRate ==
    \A k \in DOMAIN audio_buffers :
        LET buffer == audio_buffers[k]
        IN  buffer.chunks # <<>> =>
                buffer.total_duration.samples * sample_width * buffer.sample_rate
                    = TotalBytes(buffer.chunks) * buffer.total_duration.rate

\* the flushes that have begun: the backend calls in progress and the segments
\* handed to the sink, each with its channel, its triggering chunk and its audio
Flushes ==
    {[key |-> c.key, id |-> c.id, audio |-> c.audio] : c \in calls}
        \cup {[key |-> emitted[i].key, id |-> emitted[i].flush,
                audio |-> emitted[i].audio] : i \in DOMAIN emitted}

Range(seq) == {seq[i] : i \in DOMAIN seq}

\* C22: a flush empties the channel buffer, and leaves no part of the flushed
\* audio in it: whatever is appended afterwards starts from an empty buffer, so
\* no chunk of a flushed utterance is part of another flush of the channel.
C22_FlushLeavesNothingBehind ==
    \A f \in Flushes, g \in Flushes :
        (f.key = g.key /\ f.id # g.id) => Range(f.audio) \cap Range(g.audio) = {}

\* all but the last element of a sequence
Front(seq) == SubSeq(seq, 1, Len(seq) - 1)

\* C23: with bypass_vad on, a flush happens on the first chunk at which the
\* bytes in the buffer reach the minimum of the buffer's sample rate and on no
\* earlier or later chunk: the flushed audio reaches the minimum with its last
\* chunk and is below it without, the chunk after a flush starting from an
\* empty buffer.
C23_BypassFlushesOnFirstChunkAtMinimum ==
    config.bypass_vad =>
        \A c \in calls :
            /\ TotalBytes(c.combined_audio) >= ApplicableBytes(c.audio_sample_rate)
            /\ TotalBytes(Front(c.combined_audio)) < ApplicableBytes(c.audio_sample_rate)

\* the chunks are speech-level chunks followed by silence-level chunks
SpeechThenSilence(chunks) ==
    \E n \in 1..Len(chunks) :
        \A i \in 1..Len(chunks) : detect_voice_activity(chunks[i]) <=> i <= n

\* the speech-level chunks of an utterance
SpeechChunks(chunks) == SelectSeq(chunks, detect_voice_activity)

\* the utterance has reached max_buffer_duration
Forced(c) ==
    TotalSamples(c.combined_audio) >= max_buffer_duration * c.audio_sample_rate

\* C24: under the VAD policy, N ms of speech-level chunks followed by M ms of
\* silence-level chunks are flushed to transcription if and only if M is at
\* least the hysteresis and N at least the minimum speech duration: no backend
\* call is in progress for speech shorter than min_speech_duration followed by
\* silence.
C24_ShortSpeechNeverTranscribed ==
    ~config.bypass_vad =>
        \A c \in calls :
            (SpeechThenSilence(c.combined_audio) /\ ~Forced(c)) =>
                TotalSamples(SpeechChunks(c.combined_audio)) * 10
                    >= min_speech_duration_tenths * c.audio_sample_rate

\* the timestamp a chunk of a channel was submitted with
SubmittedAt(chunk) == chunk.id * ChunkIntervalMs

\* C26: under both policies, audio submitted during the first 0.5 s after the
\* channel's buffer was created is ignored: no chunk submitted in that window
\* is part of a flushed utterance (and the window, counted from the creation of
\* the buffer, is not applied again after a flush or discard).
C26_InitialWindowNeverFlushed ==
    \A c \in calls :
        \A i \in 1..Len(c.combined_audio) :
            SubmittedAt(c.combined_audio[i]) >= c.initial_skip_start + initial_skip_ms

\* C27: the configuration is read per call: after any sequence of
\* update_transcription_config and reset_transcription_config calls, a
\* process_audio_stream call uses the values get_transcription_config() returns
\* at that moment.
C27_CallUsesCurrentConfig ==
    [][(\E k \in AllKeys : SubmitsOn(k)) => config = get_transcription_config]_vars

\* the keys that have an audio buffer or a VAD state before or after the step
StateKeys ==
    DOMAIN audio_buffers \cup DOMAIN audio_buffers' \cup DOMAIN vad_state
        \cup DOMAIN vad_state'

\* the step leaves the audio buffer and the VAD state of every key but this one
\* as they are
OthersUntouched(key) ==
    \A j \in StateKeys \ {key} :
        /\ Entry(audio_buffers', j) = Entry(audio_buffers, j)
        /\ Entry(vad_state', j) = Entry(vad_state, j)

\* C28: a process_audio_stream call for one channel, up to its suspension at
\* the backend and from there to its return, leaves the audio buffer and the
\* VAD state of the other channel of the session and of every channel of every
\* other session unchanged, in every interleaving.
C28_ChannelsIndependent ==
    [][/\ \A k \in ChannelKeys : SubmitsOn(k) => OthersUntouched(k)
       /\ \A c \in calls : c \notin calls' => OthersUntouched(c.key)]_vars

\* both channels of a session and a channel of the other session hold audio and
\* a VAD state of their own
C28_Witness ==
    /\ \A k \in {Technician, Agent, buffer_key(<<"a", "agent">>, "technician")} :
          /\ clock[k] = 1
          /\ k \in DOMAIN audio_buffers
          /\ audio_buffers[k].chunks # <<>>
          /\ k \in DOMAIN vad_state
          /\ vad_state[k].is_speaking

\* the backend calls that this step starts for the key
Started(key) == {c \in calls' \ calls : c.key = key}

C30_VadStateClearedOnFlush ==
    [][\A k \in AllKeys :
          (/\ SubmitsOn(k)
           /\ ~config.bypass_vad
           /\ k \in DOMAIN audio_buffers'
           /\ (Started(k) # {} \/ audio_buffers'[k].chunks = <<>>)) =>
              /\ k \in DOMAIN vad_state'
              /\ ~vad_state'[k].is_speaking
              /\ vad_state'[k].silence_start = NoTime
              /\ vad_state'[k].rms_samples = <<>>]_vars

\* C11: a keepalive goes out before the socket has been idle for the 3 seconds
\* after which the remote end closes it: in a run without audio, each keepalive
\* follows the previous one (or the opening) by less than 3 seconds.
C11_KeepaliveBeforeIdleClose ==
    [][\A k \in DOMAIN streaming_connections :
          LET c == streaming_connections[k]
          IN  (streaming_connections'[k].keepalives = c.keepalives + 1
                 /\ c.forwarded = <<>>) =>
                  c.idle < 3]_vars

\* C12: while the receiver waits for a result, the other two duties can take
\* their next step: the sender when a chunk is on the queue, the keepalive when
\* it is to start or its sleep is over.
C12_DutiesIndependent ==
    \A k \in DOMAIN streaming_connections :
        LET c == streaming_connections[k]
        IN  (c.running /\ c.receiver = "waiting" /\ ~c.stop_event) =>
                /\ (c.sender = "checking" /\ c.taken < Len(c.audio_queue)) =>
                       ENABLED SenderCheck(k)
                /\ c.keepalive = "ready" => ENABLED KeepaliveStart(k)
                /\ (c.keepalive = "sleeping" /\ c.slept >= keepalive_interval) =>
                       ENABLED KeepaliveWake(k, TRUE)

\* C13: once a duty of the connection has failed, send_audio is rejected, whether
\* or not the other duties have ended.
C13_FailureDisconnects ==
    [][\A k \in DOMAIN streaming_connections :
          LET c == streaming_connections[k]
          IN  ((c.sender = "failed" \/ c.keepalive = "failed") /\ SubmitsOn(k)) =>
                  last' = Outcome("send_audio", k, "False")]_vars

\* C14: when the sender has stopped after close(), every chunk that send_audio
\* accepted has been given to send_media.
C14_GracefulClose ==
    \A k \in DOMAIN streaming_connections :
        LET c == streaming_connections[k]
        IN  c.sender = "ended" =>
                \A i \in DOMAIN c.audio_queue :
                    c.audio_queue[i] # PoisonPill =>
                        \E j \in DOMAIN c.forwarded : c.forwarded[j] = c.audio_queue[i]

C31_SpeakingHasRmsSamples ==
    \A k \in DOMAIN vad_state :
        vad_state[k].is_speaking => vad_state[k].rms_samples # <<>>

\* a channel is in speech on the last chunk of a run, with the RMS samples of
\* the speech collected
C31_Witness ==
    \E k \in DOMAIN vad_state :
        /\ vad_state[k].is_speaking
        /\ vad_state[k].rms_samples # <<>>
        /\ clock[k] = MaxUtteranceChunks

\* the pause is the length of the silence fed, to one step
AboutTheSilenceFed(pause) ==
    /\ pause >= ScenarioB.silence_ms - ScenarioB.step_ms
    /\ pause <= ScenarioB.silence_ms + ScenarioB.step_ms

\* C32: with 1.0 s of speech-level chunks followed by 0.6 s of silence-level
\* chunks in 20 ms steps under the VAD policy, a channel has exactly one flush,
\* the pause_duration_ms of the segment is about 600, the length of the silence
\* fed, and one segment is emitted when the backend returns text.
C32_ScenarioBPause ==
    \A k \in AllKeys :
        /\ Cardinality({f \in Flushes : f.key = k}) <= 1
        /\ \A c \in calls : c.key = k => AboutTheSilenceFed(c.pause)
        /\ \A i \in DOMAIN emitted :
              emitted[i].key = k => AboutTheSilenceFed(emitted[i].pause_duration_ms)

\* every chunk is a silence-level chunk
OnlySilence(chunks) == \A i \in 1..Len(chunks) : ~detect_voice_activity(chunks[i])

\* C33: under the VAD policy, a channel that receives only silence-level chunks
\* produces no backend call and no segment, and its buffered silence is
\* discarded at the hysteresis boundary: the buffer never holds silence alone
\* that spans more than silence_duration_to_segment.
C33_SilenceDiscardedAtHysteresis ==
    ~config.bypass_vad =>
        /\ \A c \in calls : ~OnlySilence(c.combined_audio)
        /\ \A k \in DOMAIN audio_buffers :
              LET chunks == audio_buffers[k].chunks
              IN  (chunks # <<>> /\ OnlySilence(chunks)) =>
                      SubmittedAt(chunks[Len(chunks)]) - SubmittedAt(chunks[1])
                          <= silence_duration_to_segment_ms

\* the speaker of a channel key: what follows the last "_"
SpeakerOf(key) == key[Len(key)]

\* C34: the minimum segment energy that the VAD check is given at the end of an
\* utterance is the one of the channel's role, min_segment_rms_agent for an
\* agent channel and min_segment_rms_technician for a technician channel,
\* whatever the session identifier contains.
C34_SegmentMinimumByRole ==
    \A k \in DOMAIN vad_state :
        (~vad_state[k].is_speaking /\ vad_state[k].last_speech_timestamp # NoTime) =>
            get_min_rms_for_speaker(k) =
                IF SpeakerOf(k) = "agent" THEN min_segment_rms_agent
                ELSE min_segment_rms_technician

-----------------------------------------------------------------------------
(* Two sessions with teardown *)

\* the callers of two sessions submit chunks and end their sessions
NextTeardown ==
    \/ SubmitAmong(TwoSessions, MaxChannelChunks)
    \/ \E c \in calls, r \in BatchOutcomes : BackendReturns(c, r)
    \/ \E s \in TwoSessions : EndSession(s)

SpecTeardown == InitChannels /\ [][NextTeardown]_vars

\* the channel keys of the sessions other than this one
KeysOfOthers(session_id) ==
    {buffer_key(t, sp) : t \in TwoSessions \ {session_id}, sp \in Speakers}

\* C35: end_session(S) leaves the audio buffer, the VAD state and the streaming
\* connection of every channel of every other session T as they are, also when
\* T's identifier is S followed by "_agent".
C35_TeardownKeepsOtherSessions ==
    [][\A s \in TwoSessions :
          (last'[1] = "end_session" /\ EndSession(s)) =>
              \A k \in KeysOfOthers(s) :
                  /\ Entry(audio_buffers', k) = Entry(audio_buffers, k)
                  /\ Entry(vad_state', k) = Entry(vad_state, k)
                  /\ Entry(streaming_connections', k) = Entry(streaming_connections, k)]_vars

\* C36: a channel whose audio buffer end_session has removed has no audio buffer
\* until a new chunk is submitted for it: the return of a call that was suspended
\* at the backend when end_session ran does not create the buffer again.
C36_NoBufferAfterTeardown ==
    [][\A c \in calls :
          (c \notin calls' /\ c.key \notin DOMAIN audio_buffers) =>
              c.key \notin DOMAIN audio_buffers']_vars

-----------------------------------------------------------------------------
(* Connection threads of a session in streaming mode *)

InitThreads ==
    /\ config = [DefaultConfig EXCEPT !.transcription_backend = "deepgram"]
    /\ transcription_config = TheServiceConfig(config)
    /\ audio_buffers = <<>>
    /\ streaming_connections = <<>>
    /\ released = {}
    /\ vad_state = <<>>
    /\ speaker_profiles = <<>>
    /\ calls = {}
    /\ requests = 0
    /\ emitted = <<>>
    /\ clock = [k \in AllKeys |-> 0]
    /\ last = Outcome("init", <<>>, "None")

\* sessions are initialized and ended while the threads that connect() started
\* go on
NextThreads ==
    \/ \E s \in Sessions, t \in TechnicianIds, to \in ConnectOutcomes, ao \in ConnectOutcomes :
          InitializeSessionOutcomes(s, t, to, ao)
    \/ \E s \in Sessions : EndSession(s)
    \/ \E c \in released : LateConnect(c)
    \/ \E c \in released : ConnectFails(c)
    \/ \E k \in AllKeys : ConnectionLost(k)

SpecThreads == InitThreads /\ [][NextThreads]_vars

\* C37: no connection is connected without an owner: a connection object that
\* the service does not hold in streaming_connections (connect() returned False
\* for it, or it was taken out of the dict) is not connected.
C37_NoOrphanConnection ==
    \A c \in released : ~c.is_connected

\* the chunks in the audio buffer of a key, by their numbers
BufferedIds(key) ==
    IF key \in DOMAIN audio_buffers
    THEN {audio_buffers[key].chunks[i].id : i \in DOMAIN audio_buffers[key].chunks}
    ELSE {}

\* C38: no chunk of a channel disappears: a chunk leaves the audio buffer only
\* as part of a flushed or discarded candidate, so when a suspended call returns
\* and the buffer is reset, every chunk that was in the buffer is part of the
\* audio of a flush of the channel, also the chunks that arrived while the call
\* was suspended.
C38_NoChunkDisappears ==
    [][\A c \in calls :
          c \notin calls' =>
              \A id \in BufferedIds(c.key) :
                  \E f \in calls : f.key = c.key /\ id \in Range(f.audio)]_vars

-----------------------------------------------------------------------------
(* The callers of end_session *)

\* transcription_service.end_session(session_id) called as a plain function:
\* end_session is "async def", the call builds a coroutine object and runs
\* nothing of its body
end_session_not_awaited(st, session_id) == st

\* POST /twilio/end-call with a session_id: the coroutine object is put into the
\* result, jsonify cannot serialise it, and the handler answers 500
EndCall(session_id) ==
    LET after == end_session_not_awaited(ServiceState, session_id)
    IN  /\ last' = Outcome("end_call", session_id, "500")
        /\ released' = after.released
        /\ streaming_connections' = after.streaming_connections
        /\ audio_buffers' = after.audio_buffers
        /\ vad_state' = after.vad_state
        /\ speaker_profiles' = after.speaker_profiles
        /\ UNCHANGED <<config, transcription_config, calls, requests, emitted, clock>>

\* the finally clause of config_test_audio when the WebSocket has closed
ConfigTestCloses(session_id) ==
    LET after == end_session_not_awaited(ServiceState, session_id)
    IN  /\ last' = Outcome("config_test_audio", session_id, "Session ended")
        /\ released' = after.released
        /\ streaming_connections' = after.streaming_connections
        /\ audio_buffers' = after.audio_buffers
        /\ vad_state' = after.vad_state
        /\ speaker_profiles' = after.speaker_profiles
        /\ UNCHANGED <<config, transcription_config, calls, requests, emitted, clock>>

NextCallers ==
    \/ Submit(MaxChunks, ChunkLevels, {NoRate}, BOOLEAN)
    \/ \E c \in calls, r \in BatchOutcomes : BackendReturns(c, r)
    \/ \E s \in Sessions : EndCall(s)
    \/ \E s \in Sessions : ConfigTestCloses(s)

SpecCallers == InitPipeline /\ [][NextCallers]_vars

\* C39: when the end-call route has answered for a session, or the
\* configuration-test WebSocket of a session has closed, the teardown of
\* end_session has run for it: the session has no audio buffer, no VAD state and
\* no streaming connection.
C39_CallersTearDown ==
    [][\A s \in Sessions :
          (last'[1] \in {"end_call", "config_test_audio"}
              /\ (EndCall(s) \/ ConfigTestCloses(s))) => TornDown(s)']_vars

====
